---- MODULE Spec2Model ----
(***************************************************************************)
(* Model of the git-facing core of the AI commit message generator:        *)
(* internal/git (ClientImpl), internal/config (FileLoader) and             *)
(* internal/app (App.Run).                                                 *)
(*                                                                         *)
(* Text is modelled by TLA+ strings, one character per byte (the contents  *)
(* used are ASCII, so Go's len() in bytes is Len here).                    *)
(***************************************************************************)
EXTENDS Integers, Sequences, FiniteSets, TLC

VARIABLES
  gitDir,          \* TRUE iff a repository marker is found from the working directory upwards
  status,          \* worktree.Status(): map path -> FileStatus (a function on a subset of Paths)
  work,            \* what os.ReadFile(filepath.Join(wd, path)) sees: path -> optional content
  headTree,        \* tree of the HEAD commit: path -> optional blob content
  userName,        \* repository config user.name
  userEmail,       \* repository config user.email
  commits,         \* number of commit objects in the object store
  headRef,         \* commit HEAD points to (0: reference not found)
  rulesFile,       \* optional content of <repoRoot>/.git-commit-rules-for-ai
  repo,            \* ClientImpl.repo   (cached handle, Nil when none)
  repoPath,        \* ClientImpl.repoPath
  cachedRepoRoot,  \* FileLoader.cachedRepoRoot
  cachedRules,     \* FileLoader.cachedRules
  last,            \* the last operation called and what it returned
  cwd,             \* os.Getwd(): the working directory of the process
  handles,         \* the *git.Repository handles opened and not closed
  threads,         \* the goroutines inside openRepo: position, locals, c.mu
  configFile,      \* <repoRoot>/.commit-generator-config: present or not, and its JSON object
  hookFile,        \* optional content of <repoRoot>/.git/hooks/pre-commit
  envKey           \* os.Getenv("OLLAMA_API_KEY")

vars == <<gitDir, status, work, headTree, userName, userEmail, configFile, hookFile, envKey, commits, headRef,
          rulesFile, repo, repoPath, cachedRepoRoot, cachedRules, last, cwd, handles,
          threads>>

\* the repository and the process environment: nothing a client method assigns
repoVars ==
  <<gitDir, status, work, headTree, userName, userEmail, configFile, hookFile, envKey, commits, headRef, rulesFile, cwd>>

(***************************************************************************)
(* Bounds of the model                                                     *)
(***************************************************************************)
MaxCommits == 2   \* commit objects the object store may reach
ShortRead == 2    \* bytes delivered by a reader that returns early

(***************************************************************************)
(* Program constants                                                       *)
(***************************************************************************)
TruncLimit == 10000
TruncMarker == "\n...[TRUNCATED]"

\* go-git StatusCode
Unmodified == " "
Untracked == "?"
Modified == "M"
Added == "A"
Deleted == "D"
Renamed == "R"
Copied == "C"
UpdatedButUnmerged == "U"
StatusCodes == {Unmodified, Untracked, Modified, Added, Deleted, Renamed, Copied,
                UpdatedButUnmerged}

Nil == ""                      \* nil error / nil handle
ErrRepositoryNotExists == "repository does not exist"
WorkDir == "/r"                \* the directory the process starts in; the .git marker is looked for here
SubDir == "/r/sub"             \* a directory below it
Dirs == {WorkDir, SubDir}
RepoHandle(wd) == "repo@" \o wd \* the *git.Repository PlainOpenWithOptions(wd, ...) returns
ZeroByte == "@"                \* stands for the byte 0 of a fresh make([]byte, n)

(***************************************************************************)
(* Strings                                                                 *)
(***************************************************************************)
RECURSIVE Rep(_, _)
Rep(c, n) ==
  IF n <= 0 THEN ""
  ELSE LET h == Rep(c, n \div 2) IN h \o h \o (IF n % 2 = 1 THEN c ELSE "")

NLPos(s) == {i \in 1..Len(s) : SubSeq(s, i, i) = "\n"}

\* strings.Split(s, "\n"): n separators give n + 1 pieces, "" gives <<"">>
Split(s) ==
  LET P == NLPos(s)
      n == Cardinality(P)
      pos(k) == IF k = 0 THEN 0
                ELSE IF k = n + 1 THEN Len(s) + 1
                ELSE CHOOSE i \in P : Cardinality({j \in P : j < i}) = k - 1
  IN [k \in 1..(n + 1) |-> SubSeq(s, pos(k - 1) + 1, pos(k) - 1)]

\* for _, line := range lines { WriteString(prefix); WriteString(line); WriteString("\n") }
RECURSIVE WriteFrom(_, _, _)
WriteFrom(prefix, lines, i) ==
  IF i > Len(lines) THEN ""
  ELSE prefix \o lines[i] \o "\n" \o WriteFrom(prefix, lines, i + 1)

WriteLines(prefix, lines) == WriteFrom(prefix, lines, 1)

(***************************************************************************)
(* Optional content: the result of a read that may fail                    *)
(***************************************************************************)
File(c) == [ok |-> TRUE, data |-> c]
NoFile == [ok |-> FALSE, data |-> ""]

\* the zero Config
NoCfg == [APIKey |-> "", Model |-> "", BaseURL |-> "", TimeoutSeconds |-> 0]

(***************************************************************************)
(* Results                                                                 *)
(***************************************************************************)
\* what an operation returned, with the fragments it wrote and the reads it made;
\* for App.Run: calls and rets list the collaborator methods invoked and what each
\* returned, diff and rules are what GetStagedDiff and LoadRules returned, argDiff
\* and argRules what the generator was given, warn the warning printed;
\* opens: the calls of PlainOpenWithOptions the operation made;
\* for IsInsideRepo, again: the call follows an IsInsideRepo that returned false
\* and the creation of a repository in the working directory;
\* again: the call repeats a successful GetStagedDiff on the same repository state,
\* same: and returned the same text, sameBlobs: the blob reads of both delivered
\* the same bytes
Result(op) ==
  [op |-> op, err |-> Nil, val |-> FALSE, diff |-> "", frags |-> <<>>, reads |-> {},
   calls |-> <<>>, argDiff |-> "", argRules |-> "", msg |-> "",
   again |-> FALSE, same |-> FALSE, sameBlobs |-> FALSE,
   opens |-> 0, rets |-> <<>>, rules |-> "", warn |-> "",
   prompt |-> "", requests |-> 0, sleeps |-> <<>>, answers |-> <<>>,
   stored |-> FALSE, cfg |-> NoCfg, writes |-> <<>>]

(***************************************************************************)
(* ClientImpl.openRepo                                                     *)
(***************************************************************************)
\* failure of PlainOpenWithOptions other than a missing repository: possible only
\* when the call is made, that is on a cache miss
OpenFail == IF repo = Nil \/ repoPath # cwd THEN {"open"} ELSE {}

OpenFails == {"none"} \cup OpenFail

ErrOpen == "open .git/config: permission denied"

\* faulty variant: a cached handle is returned whatever the working directory
openRepoAnyDir(fail) ==
  IF repo # Nil
  THEN [repo |-> repo, err |-> Nil, cRepo |-> repo, cPath |-> repoPath, opens |-> 0]
  ELSE IF fail = "open"
       THEN [repo |-> Nil, err |-> ErrOpen, cRepo |-> repo, cPath |-> repoPath, opens |-> 1]
  ELSE IF gitDir
       THEN [repo |-> RepoHandle(cwd), err |-> Nil,
             cRepo |-> RepoHandle(cwd), cPath |-> cwd, opens |-> 1]
       ELSE [repo |-> Nil, err |-> ErrRepositoryNotExists,
             cRepo |-> repo, cPath |-> repoPath, opens |-> 1]

\* the handle and error returned, the cache fields afterwards, and the number of
\* calls of PlainOpenWithOptions made (opens)
openRepo(fail) ==
  IF repo # Nil /\ repoPath = cwd
  THEN [repo |-> repo, err |-> Nil, cRepo |-> repo, cPath |-> repoPath, opens |-> 0]
  ELSE IF fail = "open"
       THEN [repo |-> Nil, err |-> ErrOpen, cRepo |-> repo, cPath |-> repoPath, opens |-> 1]
  ELSE IF gitDir
       THEN [repo |-> RepoHandle(cwd), err |-> Nil,
             cRepo |-> RepoHandle(cwd), cPath |-> cwd, opens |-> 1]
       ELSE [repo |-> Nil, err |-> ErrRepositoryNotExists,
             cRepo |-> repo, cPath |-> repoPath, opens |-> 1]

\* the handles alive after openRepo: a successful open adds one, nothing is closed
handlesAfter(o) == IF o.opens = 1 /\ o.err = Nil THEN handles \cup {o.repo} ELSE handles

\* goroutines that call openRepo on one client
MaxCallers == 3
Callers == 1..MaxCallers

\* no goroutine has called yet and c.mu is free
NoThreads ==
  [pc |-> [t \in Callers |-> "idle"],
   mu |-> 0,
   wd |-> [t \in Callers |-> ""],
   local |-> [t \in Callers |-> Nil],
   ret |-> [t \in Callers |-> [repo |-> Nil, err |-> Nil, path |-> ""]],
   opened |-> 0]

\* faulty variant: Lock never waits
muFreeAlways == TRUE

\* c.mu.Lock() may proceed
muFree == threads.mu = 0

\* faulty variant: every failure to open counts as "not a repository"
isInsideRepoAnyError(fail) ==
  LET o == openRepo(fail)
  IN IF o.err # Nil THEN [val |-> FALSE, err |-> Nil] ELSE [val |-> TRUE, err |-> Nil]

\* faulty variant: a missing repository counts as a repository
isInsideRepoAlwaysTrue(fail) ==
  LET o == openRepo(fail)
  IN IF o.err = ErrRepositoryNotExists THEN [val |-> TRUE, err |-> Nil]
     ELSE IF o.err # Nil THEN [val |-> FALSE, err |-> o.err]
     ELSE [val |-> TRUE, err |-> Nil]

\* ClientImpl.IsInsideRepo
isInsideRepo(fail) ==
  LET o == openRepo(fail)
  IN IF o.err = ErrRepositoryNotExists THEN [val |-> FALSE, err |-> Nil]
     ELSE IF o.err # Nil THEN [val |-> FALSE, err |-> o.err]
     ELSE [val |-> TRUE, err |-> Nil]

(***************************************************************************)
(* ClientImpl.HasStagedChanges                                             *)
(***************************************************************************)
\* faulty variants: only Unmodified is skipped; only five codes count
IsStagedCodeUntracked(c) == c # Unmodified

IsStagedCodeFive(c) == c \in {Added, Modified, Deleted, Renamed, Copied}

\* fileStatus.Staging != git.Unmodified && fileStatus.Staging != git.Untracked
IsStagedCode(c) == c # Unmodified /\ c # Untracked

\* failures of the go-git calls an operation makes ("none": all succeed)
StatusFails == {"none", "worktree", "status"} \cup OpenFail

hasStagedChanges(fail) ==
  LET o == openRepo(fail)
  IN IF o.err # Nil THEN [val |-> FALSE, err |-> "failed to open repository: " \o o.err]
     ELSE IF fail = "worktree" THEN [val |-> FALSE, err |-> "failed to get worktree: io"]
     ELSE IF fail = "status" THEN [val |-> FALSE, err |-> "failed to get status: io"]
     ELSE [val |-> \E p \in DOMAIN status : IsStagedCode(status[p].Staging), err |-> Nil]

(***************************************************************************)
(* ClientImpl.GetStagedDiff                                                *)
(***************************************************************************)
\* content := make([]byte, blob.Size); reader.Read(content): one Read of n bytes
ReadInto(blob, n) == SubSeq(blob, 1, n) \o Rep(ZeroByte, Len(blob) - n)

\* headTree.FindEntry, repo.BlobObject, blob.Reader and the single Read
BlobContent(filePath, treeOk, r) ==
  IF treeOk /\ headTree[filePath].ok /\ r.open
  THEN File(ReadInto(headTree[filePath].data, r.n))
  ELSE NoFile

AddedHeader(filePath, extra) ==
  "diff --git a/" \o filePath \o " b/" \o filePath
    \o "\nnew file mode 100644\nindex 0000000.." \o extra
    \o "\n--- /dev/null\n+++ b/" \o filePath \o "\n"

\* faulty variant: the content lines are written with the prefix of a removal
AddedFragmentAsRemoval(filePath, fileStatus) ==
  AddedHeader(filePath, fileStatus.Extra)
    \o (IF work[filePath].ok THEN WriteLines("-", Split(work[filePath].data)) ELSE "")

\* faulty variant: nothing is written for a path whose working copy cannot be read
AddedFragmentDropsUnreadable(filePath, fileStatus) ==
  IF work[filePath].ok
  THEN AddedHeader(filePath, fileStatus.Extra) \o WriteLines("+", Split(work[filePath].data))
  ELSE ""

AddedFragment(filePath, fileStatus) ==
  AddedHeader(filePath, fileStatus.Extra)
    \o (IF work[filePath].ok THEN WriteLines("+", Split(work[filePath].data)) ELSE "")

DeletedHeader(filePath, extra) ==
  "diff --git a/" \o filePath \o " b/" \o filePath
    \o "\ndeleted file mode 100644\nindex " \o extra
    \o "..0000000\n--- a/" \o filePath \o "\n+++ /dev/null\n"

DeletedFragment(filePath, fileStatus, treeOk, r) ==
  LET content == BlobContent(filePath, treeOk, r)
  IN DeletedHeader(filePath, fileStatus.Extra)
       \o (IF content.ok THEN WriteLines("-", Split(content.data)) ELSE "")

ModifiedHeader(filePath, extra) ==
  "diff --git a/" \o filePath \o " b/" \o filePath
    \o "\nindex " \o extra \o ".." \o extra
    \o " 100644\n--- a/" \o filePath \o "\n+++ b/" \o filePath \o "\n"

ModifiedFragment(filePath, fileStatus, treeOk, r) ==
  LET oldContent == BlobContent(filePath, treeOk, r).data   \* nil slice when not read
      newContent == work[filePath].data                     \* []byte{} when ReadFile fails
  IN ModifiedHeader(filePath, fileStatus.Extra)
       \o WriteLines("-", Split(oldContent))
       \o WriteLines("+", Split(newContent))

\* faulty variant: the new path is written where the old one belongs
RenamedFragmentNewPath(filePath, fileStatus) ==
  "diff --git a/" \o filePath \o " b/" \o filePath
    \o "\nrename from " \o fileStatus.Extra
    \o "\nrename to " \o filePath \o "\n"

RenamedFragment(filePath, fileStatus) ==
  "diff --git a/" \o fileStatus.Extra \o " b/" \o filePath
    \o "\nrename from " \o fileStatus.Extra
    \o "\nrename to " \o filePath \o "\n"

\* the cases of switch fileStatus.Staging
SwitchCases == {Added, Deleted, Modified, Renamed}

\* the text one iteration of the loop writes for a staged path
FragmentFor(filePath, fileStatus, treeOk, r) ==
  CASE fileStatus.Staging = Added -> AddedFragment(filePath, fileStatus)
    [] fileStatus.Staging = Deleted -> DeletedFragment(filePath, fileStatus, treeOk, r)
    [] fileStatus.Staging = Modified -> ModifiedFragment(filePath, fileStatus, treeOk, r)
    [] fileStatus.Staging = Renamed -> RenamedFragment(filePath, fileStatus)
    [] OTHER -> ""

\* the content reads one iteration of the loop makes: os.ReadFile of the working
\* copy, reader.Read of the HEAD blob (n: the bytes that Read delivered)
FileRead(filePath) == [kind |-> "file", path |-> filePath, n |-> Len(work[filePath].data)]

BlobRead(filePath, treeOk, r) ==
  IF treeOk /\ headTree[filePath].ok /\ r.open
  THEN {[kind |-> "blob", path |-> filePath, n |-> r.n]}
  ELSE {}

ReadsFor(filePath, fileStatus, treeOk, r) ==
  CASE fileStatus.Staging = Added -> {FileRead(filePath)}
    [] fileStatus.Staging = Deleted -> BlobRead(filePath, treeOk, r)
    [] fileStatus.Staging = Modified -> {FileRead(filePath)} \cup BlobRead(filePath, treeOk, r)
    [] OTHER -> {}

\* faulty variant: an entry that is not staged ends the loop (break for continue)
RECURSIVE DiffLoopBreak(_, _, _, _)
DiffLoopBreak(order, treeOk, rd, i) ==
  IF i > Len(order) THEN <<>>
  ELSE LET filePath == order[i]
           fileStatus == status[filePath]
       IN IF ~(fileStatus.Staging # Unmodified /\ fileStatus.Staging # Untracked)
          THEN <<>>
          ELSE (IF fileStatus.Staging \in SwitchCases
                THEN <<[path |-> filePath,
                        text |-> FragmentFor(filePath, fileStatus, treeOk, rd[filePath]),
                        reads |-> ReadsFor(filePath, fileStatus, treeOk, rd[filePath])]>>
                ELSE <<>>)
                 \o DiffLoopBreak(order, treeOk, rd, i + 1)

\* for filePath, fileStatus := range status, in the iteration order the map gives
RECURSIVE DiffLoop(_, _, _, _)
DiffLoop(order, treeOk, rd, i) ==
  IF i > Len(order) THEN <<>>
  ELSE LET filePath == order[i]
           fileStatus == status[filePath]
       IN IF ~IsStagedCode(fileStatus.Staging)
          THEN DiffLoop(order, treeOk, rd, i + 1)          \* continue
          ELSE (IF fileStatus.Staging \in SwitchCases
                THEN <<[path |-> filePath,
                        text |-> FragmentFor(filePath, fileStatus, treeOk, rd[filePath]),
                        reads |-> ReadsFor(filePath, fileStatus, treeOk, rd[filePath])]>>
                ELSE <<>>)
                 \o DiffLoop(order, treeOk, rd, i + 1)

\* diffBuilder.String(): the fragments in the order they were written
RECURSIVE Concat(_, _)
Concat(frags, i) == IF i > Len(frags) THEN "" ELSE frags[i].text \o Concat(frags, i + 1)

\* faulty variant: a diff of exactly the limit is cut as well
TruncateAtLimit(diff) ==
  IF Len(diff) >= TruncLimit THEN SubSeq(diff, 1, TruncLimit) \o TruncMarker ELSE diff

\* if len(diff) > 10000 { return diff[:10000] + "\n...[TRUNCATED]" }
Truncate(diff) ==
  IF Len(diff) > TruncLimit THEN SubSeq(diff, 1, TruncLimit) \o TruncMarker ELSE diff

\* the HEAD commit and its tree are only looked up when HEAD resolves
DiffFails ==
  {"none", "worktree", "status", "head"} \cup OpenFail
    \cup (IF headRef # 0 THEN {"commit", "tree"} ELSE {})

\* faulty variant: a HEAD reference that is not found is an error like any other
diffSetupNoHeadFails(fail) ==
  LET o == openRepo(fail)
  IN IF o.err # Nil THEN "failed to open repository: " \o o.err
     ELSE IF fail = "worktree" THEN "failed to get worktree: io"
     ELSE IF fail = "status" THEN "failed to get status: io"
     ELSE IF fail = "head" THEN "failed to get HEAD: io"
     ELSE IF headRef = 0 THEN "failed to get HEAD: reference not found"
     ELSE IF fail = "tree" THEN "failed to get HEAD tree: io"
     ELSE Nil

\* the part of GetStagedDiff before the loop: the error it returns, or Nil
diffSetup(fail) ==
  LET o == openRepo(fail)
  IN IF o.err # Nil THEN "failed to open repository: " \o o.err
     ELSE IF fail = "worktree" THEN "failed to get worktree: io"
     ELSE IF fail = "status" THEN "failed to get status: io"
     ELSE IF fail = "head" THEN "failed to get HEAD: io"
     ELSE IF fail = "tree" THEN "failed to get HEAD tree: io"
     ELSE Nil

\* headTree stays nil without HEAD or when CommitObject fails
HeadTreeOk(fail) == headRef # 0 /\ fail # "commit"

\* the loop over the status map and the size cap
getStagedDiff(order, rd, fail) ==
  LET frags == DiffLoop(order, HeadTreeOk(fail), rd, 1)
  IN [Result("GetStagedDiff") EXCEPT
        !.diff = Truncate(Concat(frags, 1)),
        !.frags = [k \in 1..Len(frags) |-> [path |-> frags[k].path, text |-> frags[k].text]],
        !.reads = UNION {frags[k].reads : k \in 1..Len(frags)}]

(***************************************************************************)
(* Choices the environment makes during one GetStagedDiff                  *)
(***************************************************************************)
\* iteration orders of the status map
Orders ==
  LET D == DOMAIN status
  IN {s \in [1..Cardinality(D) -> D] : \A i, j \in 1..Cardinality(D) : i # j => s[i] # s[j]}

\* bytes one Read may deliver for a blob of the given size
ReadLens(size) == {size} \cup {k \in {ShortRead} : k < size}

ReadChoicesOf(p) ==
  IF p \in DOMAIN status /\ status[p].Staging \in {Deleted, Modified}
       /\ headRef # 0 /\ headTree[p].ok
  THEN {[open |-> FALSE, n |-> 0]}
         \cup {[open |-> TRUE, n |-> k] : k \in ReadLens(Len(headTree[p].data))}
  ELSE {[open |-> TRUE, n |-> 0]}

(***************************************************************************)
(* ClientImpl.CommitWithMessage                                            *)
(***************************************************************************)
\* Taken from the revision of the client that commits through go-git
\* (repo.Config, worktree.Commit).  internal/git/client.go carries another
\* revision of this one method, which runs "git commit -m" as a subprocess and
\* makes no check of its own; it is not modelled.
CommitFails == {"none", "worktree", "config", "commit", "updateHEAD"} \cup OpenFail

\* faulty variant: the author e-mail is not checked
commitWithMessageNameOnly(message, fail) ==
  LET o == openRepo(fail)
  IN IF o.err # Nil THEN "failed to open repository: " \o o.err
     ELSE IF fail = "worktree" THEN "failed to get worktree: io"
     ELSE IF fail = "config" THEN "failed to get git config: io"
     ELSE IF userName = ""
          THEN "git user name is not configured. Please set it with: git config user.name \"Your Name\""
     ELSE IF fail \in {"commit", "updateHEAD"} THEN "failed to commit: io"
     ELSE Nil

\* the error returned; Nil means worktree.Commit created the commit
commitWithMessage(message, fail) ==
  LET o == openRepo(fail)
  IN IF o.err # Nil THEN "failed to open repository: " \o o.err
     ELSE IF fail = "worktree" THEN "failed to get worktree: io"
     ELSE IF fail = "config" THEN "failed to get git config: io"
     ELSE IF userName = ""
          THEN "git user name is not configured. Please set it with: git config user.name \"Your Name\""
     ELSE IF userEmail = ""
          THEN "git user email is not configured. Please set it with: git config user.email \"your.email@example.com\""
     ELSE IF fail \in {"commit", "updateHEAD"} THEN "failed to commit: io"
     ELSE Nil

\* worktree.Commit writes the commit object into the object store and then moves
\* the reference HEAD points to.  It may fail before the object is written
\* ("commit") or between the two ("updateHEAD"); both come back as the error of
\* the one call and are wrapped alike.
objectStored(message, fail) ==
  \/ commitWithMessage(message, fail) = Nil
  \/ fail = "updateHEAD" /\ commitWithMessage(message, fail) = "failed to commit: io"

\* worktree.Commit: the index becomes the tree of the new HEAD commit
\* (the staged content of a path is taken to be its working copy content)
CommittedTree ==
  [p \in DOMAIN headTree |->
     IF p \in DOMAIN status /\ IsStagedCode(status[p].Staging)
     THEN (IF status[p].Staging = Deleted THEN NoFile ELSE File(work[p].data))
     ELSE headTree[p]]

CommittedStatus ==
  [p \in DOMAIN status |->
     IF IsStagedCode(status[p].Staging)
     THEN [status[p] EXCEPT !.Staging = Unmodified, !.Extra = ""]
     ELSE status[p]]

(***************************************************************************)
(* FileLoader.LoadRules                                                    *)
(***************************************************************************)
\* findRepoRoot: the directory of the first .git found from the working directory upwards
findRepoRoot == IF gitDir THEN [dir |-> WorkDir, err |-> Nil] ELSE [dir |-> "", err |-> "file does not exist"]

\* os.ReadFile fails for another reason than a missing file: possible only when the
\* file is read, that is inside a repository and without a cache hit
RulesFails ==
  {"none"} \cup (IF gitDir /\ ~(cachedRepoRoot = WorkDir /\ cachedRules # "") THEN {"read"} ELSE {})

\* rulesPath: the file below the repository root
RulesPath == ".git-commit-rules-for-ai"

\* the record of one os.ReadFile(rulesPath)
RulesRead == [kind |-> "file", path |-> RulesPath, n |-> Len(rulesFile.data)]

\* os.ReadFile(rulesPath) is reached: a root was found and the cache does not answer
rulesFileRead ==
  findRepoRoot.err = Nil /\ ~(cachedRepoRoot = findRepoRoot.dir /\ cachedRules # "")

\* faulty variant: a failed read hands back the text of the file all the same
loadRulesStale(fail) ==
  LET root == findRepoRoot
      keep == [cRoot |-> cachedRepoRoot, cRules |-> cachedRules]
  IN IF root.err # Nil THEN [rules |-> "", err |-> Nil] @@ keep
     ELSE IF cachedRepoRoot = root.dir /\ cachedRules # ""
          THEN [rules |-> cachedRules, err |-> Nil] @@ keep
     ELSE IF fail = "read" THEN [rules |-> rulesFile.data, err |-> "permission denied"] @@ keep
     ELSE IF ~rulesFile.ok
          THEN [rules |-> "", err |-> Nil, cRoot |-> root.dir, cRules |-> ""]
     ELSE [rules |-> rulesFile.data, err |-> Nil, cRoot |-> root.dir, cRules |-> rulesFile.data]

\* the rules and error returned, and the cache fields afterwards
loadRules(fail) ==
  LET root == findRepoRoot
      keep == [cRoot |-> cachedRepoRoot, cRules |-> cachedRules]
  IN IF root.err # Nil THEN [rules |-> "", err |-> Nil] @@ keep
     ELSE IF cachedRepoRoot = root.dir /\ cachedRules # ""
          THEN [rules |-> cachedRules, err |-> Nil] @@ keep
     ELSE IF fail = "read" THEN [rules |-> "", err |-> "permission denied"] @@ keep
     ELSE IF ~rulesFile.ok
          THEN [rules |-> "", err |-> Nil, cRoot |-> root.dir, cRules |-> ""]
     ELSE [rules |-> rulesFile.data, err |-> Nil, cRoot |-> root.dir, cRules |-> rulesFile.data]

(***************************************************************************)
(* ai.Client: what GenerateCommitMessage may return to App.Run             *)
(***************************************************************************)
AIOutcomes == {[msg |-> "feat: add greeting", err |-> Nil],
               [msg |-> "", err |-> "ai service down"]}

(***************************************************************************)
(* OllamaClient.GenerateCommitMessage                                      *)
(***************************************************************************)
MaxRetries == 3    \* maxRetries
BaseDelay == 2     \* baseDelay, in seconds
MaxLimited == 4    \* requests in a row the service may answer with 429

\* strings.TrimSpace
IsSpace(c) == c \in {" ", "\n", "\t", "\r"}

RECURSIVE TrimLeft(_)
TrimLeft(s) ==
  IF Len(s) > 0 /\ IsSpace(SubSeq(s, 1, 1)) THEN TrimLeft(SubSeq(s, 2, Len(s))) ELSE s

RECURSIVE TrimRight(_)
TrimRight(s) ==
  IF Len(s) > 0 /\ IsSpace(SubSeq(s, Len(s), Len(s)))
  THEN TrimRight(SubSeq(s, 1, Len(s) - 1))
  ELSE s

TrimSpace(s) == TrimRight(TrimLeft(s))

\* what c.client.Do returns: a transport error, or a response with its status
\* line and its body; json says whether the body decodes into ollamaResponse
\* and response is the field it then holds
Answer(err, code, st, body, json, response) ==
  [err |-> err, code |-> code, status |-> st, body |-> body, json |-> json,
   response |-> response]

Rate429 == Answer(Nil, 429, "429 Too Many Requests", "slow down", FALSE, "")
Status500 == Answer(Nil, 500, "500 Internal Server Error", "boom", FALSE, "")
ConnRefused == Answer("dial tcp 127.0.0.1:11434: connect: connection refused",
                      0, "", "", FALSE, "")
TimedOut == Answer("context deadline exceeded (Client.Timeout exceeded while awaiting headers)",
                   0, "", "", FALSE, "")
Undecodable == Answer(Nil, 200, "200 OK", "<html>", FALSE, "")
EmptyResponse == Answer(Nil, 200, "200 OK", "{}", TRUE, "")
BlankResponse == Answer(Nil, 200, "200 OK", "{..}", TRUE, " \n")
OkResponse == Answer(Nil, 200, "200 OK", "{..}", TRUE, " feat: add greeting\n")

FinalAnswers == {Status500, ConnRefused, TimedOut, Undecodable, EmptyResponse,
                 BlankResponse, OkResponse}

\* a service that rate-limits the first `limited` requests and answers `then`
\* to every later one
Services == [limited : 0..MaxLimited, then : FinalAnswers]

ServerAnswer(srv, n) == IF n <= srv.limited THEN Rate429 ELSE srv.then

buildPrompt(diff, rules) ==
  "You are an expert DevOps engineer specialized in writing git commit messages.\n\n"
  \o "Analyze the following code diff.\n\n"
  \o "First, determine whether the diff represents a single logical change or multiple independent changes that should be split into smaller commits to follow clean code and best practices.\n\n"
  \o "If the diff should be split, briefly state that it can be broken down and list the suggested commit scopes or purposes (do not generate the commits yet).\n\n"
  \o "If the diff represents a single logical change, generate a single-line git commit message following the Conventional Commits specification.\n\n"
  \o "Format for commit message:\n<type>(<scope>): <description>\n\n"
  \o "Allowed types: feat, fix, docs, style, refactor, test, chore.\n\n"
  \o "Do not output anything other than the message or the split suggestion.\n\n"
  \o (IF rules # "" THEN "Team Rules:\n" \o rules \o "\n\n" ELSE "")
  \o "Diff:\n" \o diff

\* variants of the backoff delay and of the retry condition
backoffDelayLinear(attempt) == BaseDelay * attempt

shouldRetryAnyStatus(resp) == resp.code # 200

\* delay := baseDelay * time.Duration(1<<uint(attempt-1))
backoffDelay(attempt) == BaseDelay * 2^(attempt - 1)

\* resp.StatusCode == 429
shouldRetry(resp) == resp.code = 429

\* the retry loop from iteration `attempt` on; acc holds the requests sent, the
\* seconds slept and the answers received so far
RECURSIVE retryLoop(_, _, _)
retryLoop(srv, attempt, acc) ==
  IF attempt > MaxRetries
  THEN [acc EXCEPT !.err = "unreachable"]
  ELSE
    LET slept == IF attempt > 0
                 THEN Append(acc.sleeps, backoffDelay(attempt))
                 ELSE acc.sleeps
        n == acc.requests + 1
        resp == ServerAnswer(srv, n)
        now == [acc EXCEPT !.sleeps = slept, !.requests = n,
                           !.answers = Append(acc.answers, resp)]
    IN IF resp.err # Nil
       THEN [now EXCEPT !.err = "API call failed: " \o resp.err]
       ELSE IF shouldRetry(resp)
       THEN IF attempt = MaxRetries
            THEN [now EXCEPT !.err = "API rate limit exceeded after "
                                      \o ToString(MaxRetries) \o " retries: " \o resp.body]
            ELSE retryLoop(srv, attempt + 1, now)
       ELSE IF resp.code # 200
       THEN [now EXCEPT !.err = "API returned error: " \o resp.status
                                 \o " (body: " \o resp.body \o ")"]
       ELSE IF ~resp.json
       THEN [now EXCEPT !.err = "failed to decode response: invalid character"]
       ELSE IF resp.response = ""
       THEN [now EXCEPT !.err = "empty response from model"]
       ELSE [now EXCEPT !.msg = TrimSpace(resp.response)]

generateCommitMessage(diff, rules, srv) ==
  retryLoop(srv, 0, [requests |-> 0, sleeps |-> <<>>, answers |-> <<>>,
                     err |-> Nil, msg |-> "", prompt |-> buildPrompt(diff, rules)])

(***************************************************************************)
(* ConfigLoader: LoadConfig, SaveDefaultConfig, ConfigExists               *)
(***************************************************************************)
DefaultModel == "gpt-oss:120b"
DefaultBaseURL == "http://localhost:11434/api/generate"
DefaultTimeout == 60

\* the Config LoadConfig starts from
DefaultCfg ==
  [APIKey |-> "", Model |-> DefaultModel, BaseURL |-> DefaultBaseURL,
   TimeoutSeconds |-> DefaultTimeout]

\* a config file: whether it exists, whether it is JSON, and the object it holds
\* (keys api_key, model, base_url, timeout_seconds, any of them missing)
ConfigFile(json, obj) == [ok |-> TRUE, json |-> json, obj |-> obj]
NoConfig == [ok |-> FALSE, json |-> FALSE, obj |-> [none |-> ""]]

\* json.MarshalIndent(config, "", "  "): every field under its key
Marshal(config) ==
  [api_key |-> config.APIKey, model |-> config.Model, base_url |-> config.BaseURL,
   timeout_seconds |-> config.TimeoutSeconds]

\* json.Unmarshal(fileData, config): the keys of the object overwrite their
\* fields, the other fields stay
Unmarshal(obj, config) ==
  [APIKey |-> IF "api_key" \in DOMAIN obj THEN obj.api_key ELSE config.APIKey,
   Model |-> IF "model" \in DOMAIN obj THEN obj.model ELSE config.Model,
   BaseURL |-> IF "base_url" \in DOMAIN obj THEN obj.base_url ELSE config.BaseURL,
   TimeoutSeconds |-> IF "timeout_seconds" \in DOMAIN obj
                      THEN obj.timeout_seconds ELSE config.TimeoutSeconds]

\* faulty variant: the environment wins over the file
apiKeyEnvFirst(config) ==
  IF envKey # "" THEN [config EXCEPT !.APIKey = envKey] ELSE config

\* if config.APIKey == "" { config.APIKey = os.Getenv("OLLAMA_API_KEY") }
apiKey(config) ==
  IF config.APIKey = "" THEN [config EXCEPT !.APIKey = envKey] ELSE config

\* the Config and the error returned
loadConfig ==
  IF findRepoRoot.err = Nil /\ configFile.ok
  THEN IF ~configFile.json
       THEN [cfg |-> NoCfg, err |-> "failed to parse config file: invalid character"]
       ELSE [cfg |-> apiKey(Unmarshal(configFile.obj, DefaultCfg)), err |-> Nil]
  ELSE [cfg |-> apiKey(DefaultCfg), err |-> Nil]

\* the file SaveDefaultConfig writes
savedConfig ==
  ConfigFile(TRUE, Marshal([DefaultCfg EXCEPT !.APIKey = envKey]))

\* ConfigExists; fail = "stat" is an os.Stat error other than a missing file
configExists(fail) ==
  IF findRepoRoot.err # Nil THEN [val |-> FALSE, err |-> findRepoRoot.err]
  ELSE IF fail = "stat" THEN [val |-> FALSE, err |-> "stat: permission denied"]
  ELSE [val |-> configFile.ok, err |-> Nil]

(***************************************************************************)
(* App.Init                                                                *)
(***************************************************************************)
\* rulesContent
DefaultRules ==
  "# Git Commit Rules for AI Generator\n"
  \o "# Customize these rules to match your team's conventions\n"
  \o "\n"
  \o "# Example rules:\n"
  \o "# - Always start with a verb (Add, Fix, Update)\n"
  \o "# - If the change affects the UI, mention it\n"
  \o "# - Max 50 characters for the subject line\n"
  \o "# - Include Jira ticket ID if applicable\n"

\* generateUnixHook: the first lines of the script stand for the whole
HookScript == "#!/bin/bash\n# Pre-commit hook for AI commit message generator\n"

\* ClientImpl.GetRepoRoot
getRepoRoot(fail) ==
  IF fail = "root" THEN [dir |-> "", err |-> "failed to get worktree: io"]
  ELSE [dir |-> WorkDir, err |-> Nil]

\* what may go wrong in one Init: the open, GetRepoRoot, the os.Stat of
\* ConfigExists, and each of the three os.WriteFile
InitFails == {"none", "root", "stat", "config", "rules", "hook"} \cup OpenFail

\* faulty variant: the hook is written before the rules file
initWritesHookFirst(fail) ==
  LET cw == IF fail = "config" THEN <<>> ELSE <<"config">>
      hw == IF fail = "hook" THEN <<>> ELSE <<"hook">>
      rw == IF rulesFile.ok \/ fail = "rules" THEN <<>> ELSE <<"rules">>
  IN IF fail = "config" THEN <<>>
     ELSE IF fail = "hook" THEN cw
     ELSE cw \o hw \o rw

\* the files one Init writes once it found no config file, in the order of the
\* writes: each write that fails ends the call
initWrites(fail) ==
  IF fail = "config" THEN <<>>
  ELSE IF ~rulesFile.ok /\ fail = "rules" THEN <<"config">>
  ELSE LET rw == IF rulesFile.ok THEN <<>> ELSE <<"rules">>
       IN IF fail = "hook" THEN <<"config">> \o rw
          ELSE <<"config">> \o rw \o <<"hook">>

\* the error of an Init that found no config file
initError(fail) ==
  IF fail = "config" THEN "failed to create config file: failed to write config file: io"
  ELSE IF ~rulesFile.ok /\ fail = "rules" THEN "failed to create rules file: io"
  ELSE IF fail = "hook" THEN "failed to create pre-commit hook: io"
  ELSE Nil

Wrote(ws, f) == \E i \in 1..Len(ws) : ws[i] = f

(***************************************************************************)
(* Repository states the operations are run on                             *)
(***************************************************************************)
Paths == {"hello.txt", "b"}
Messages == {"feat: add greeting"}

Sc(in, s, w, e, wk, hd) ==
  [in |-> in, st |-> [Staging |-> s, Worktree |-> w, Extra |-> e], work |-> wk, head |-> hd]

NotInStatus == Sc(FALSE, Unmodified, Unmodified, "", NoFile, NoFile)

\* lengths of a one-line file whose Added fragment is exactly TruncLimit long, and one more
BigLens ==
  LET n0 == TruncLimit - Len(AddedHeader("b", "")) - 2 IN {n0, n0 + 1}

HelloAdded == Sc(TRUE, Added, Unmodified, "", File("hello\n"), NoFile)
HelloModified == Sc(TRUE, Modified, Unmodified, "", File("hello\nbye\n"), File("hello\n"))

HelloScenarios ==
  {NotInStatus, HelloAdded, HelloModified,
   Sc(TRUE, Deleted, Unmodified, "", NoFile, File("hello\n")),
   Sc(TRUE, Renamed, Unmodified, "old.txt", File("hello\n"), NoFile),
   Sc(TRUE, Unmodified, Modified, "", File("hi\n"), File("hello\n"))}

OtherUntracked == Sc(TRUE, Untracked, Untracked, "", File("x\ny"), NoFile)
OtherAdded == Sc(TRUE, Added, Unmodified, "abc1234", File("x\ny"), NoFile)
OtherModified == Sc(TRUE, Modified, Unmodified, "", File("a\nz"), File("a\nb\nc"))
OtherCopied == Sc(TRUE, Copied, Unmodified, "hello.txt", File("x\ny"), NoFile)
OtherBig(n) == Sc(TRUE, Added, Unmodified, "", File(Rep("x", n)), NoFile)
OtherDeleted == Sc(TRUE, Deleted, Unmodified, "", NoFile, File("a\nb\nc"))
OtherAddedUnreadable == Sc(TRUE, Added, Unmodified, "", NoFile, NoFile)

OtherScenarios ==
  {NotInStatus, OtherUntracked, OtherAdded, OtherModified, OtherCopied,
   OtherAddedUnreadable,
   Sc(TRUE, Added, Unmodified, "", File(""), NoFile),
   Sc(TRUE, Modified, Modified, "", NoFile, File("a\nb\nc")),
   Sc(TRUE, Modified, Unmodified, "abc1234", File("a\nz"), NoFile),
   OtherDeleted,
   Sc(TRUE, Deleted, Unmodified, "", NoFile, File("")),
   Sc(TRUE, Deleted, Unmodified, "abc1234", NoFile, NoFile),
   Sc(TRUE, Renamed, Unmodified, "old/b", File("x\ny"), NoFile),
   Sc(TRUE, UpdatedButUnmerged, UpdatedButUnmerged, "", File("x\ny"), File("a\nb\nc"))}

Pair(h, o) == [p \in Paths |-> IF p = "hello.txt" THEN h ELSE o]

Setup(g, hd, sc, n, e, r) ==
  [gitDir |-> g, hasHead |-> hd, sc |-> sc, name |-> n, email |-> e, rules |-> r]

RulesText == "Always start with a verb\n"

\* one path at a time, and pairs of staged paths; no author name configured
DiffSetups ==
  {Setup(TRUE, hd, sc, "", "test@example.com", File(RulesText)) :
     hd \in BOOLEAN,
     sc \in {Pair(h, NotInStatus) : h \in HelloScenarios}
              \cup {Pair(NotInStatus, o) : o \in OtherScenarios}
              \cup {Pair(h, o) : h \in {HelloAdded, HelloModified},
                                 o \in {OtherUntracked, OtherAdded, OtherModified, OtherCopied}}
              \cup {Pair(HelloAdded, o) : o \in {OtherDeleted, OtherAddedUnreadable}}}

\* diffs at and over the size cap
BigSetups ==
  {Setup(TRUE, FALSE, Pair(NotInStatus, OtherBig(n)), "", "", NoFile) : n \in BigLens}
    \cup {Setup(TRUE, FALSE, Pair(HelloAdded, OtherBig(n)), "", "", NoFile) : n \in BigLens}

\* every author identity, with and without staged changes
CommitSetups ==
  {Setup(TRUE, hd, sc, n, e, NoFile) :
     hd \in BOOLEAN,
     sc \in {Pair(NotInStatus, NotInStatus), Pair(HelloAdded, NotInStatus)},
     n \in {"", "Test User"}, e \in {"", "test@example.com"}}

\* a working directory outside every repository
NoRepoSetups == {Setup(FALSE, FALSE, Pair(NotInStatus, NotInStatus), "", "", NoFile)}

Setups == DiffSetups \cup CommitSetups \cup NoRepoSetups

InitFrom(S) ==
  /\ \E s \in S :
       /\ gitDir = s.gitDir
       /\ status = [p \in {q \in Paths : s.sc[q].in} |-> s.sc[p].st]
       /\ work = [p \in Paths |-> s.sc[p].work]
       /\ headTree = [p \in Paths |-> IF s.hasHead THEN s.sc[p].head ELSE NoFile]
       /\ headRef = IF s.hasHead THEN 1 ELSE 0
       /\ commits = IF s.hasHead THEN 1 ELSE 0
       /\ userName = s.name
       /\ userEmail = s.email
       /\ rulesFile = s.rules
  /\ repo = Nil
  /\ repoPath = ""
  /\ cachedRepoRoot = ""
  /\ cachedRules = ""
  /\ last = Result("NewClient")
  /\ cwd = WorkDir
  /\ handles = {}
  /\ threads = NoThreads
  /\ configFile = NoConfig
  /\ hookFile = NoFile
  /\ envKey = ""

Init == InitFrom(Setups)

\* the same client on repositories whose staged diff reaches the size cap
InitBig == InitFrom(BigSetups)

(***************************************************************************)
(* Operations                                                              *)
(***************************************************************************)
ReadChoices == {rd \in [Paths -> UNION {ReadChoicesOf(p) : p \in Paths}] :
                  \A p \in Paths : rd[p] \in ReadChoicesOf(p)}

IsInsideRepo ==
  \E fail \in OpenFails :
    LET o == openRepo(fail)
        r == isInsideRepo(fail)
    IN /\ repo' = o.cRepo
       /\ repoPath' = o.cPath
       /\ handles' = handlesAfter(o)
       /\ UNCHANGED threads
       /\ last' = [Result("IsInsideRepo") EXCEPT !.val = r.val, !.err = r.err,
                                                 !.opens = o.opens,
                                                 !.again = last.op = "PlainInit" /\ last.val]
       /\ UNCHANGED <<repoVars, cachedRepoRoot, cachedRules>>

HasStagedChanges ==
  \E fail \in StatusFails :
    LET o == openRepo(fail)
        r == hasStagedChanges(fail)
    IN /\ repo' = o.cRepo
       /\ repoPath' = o.cPath
       /\ handles' = handlesAfter(o)
       /\ UNCHANGED threads
       /\ last' = [Result("HasStagedChanges") EXCEPT !.val = r.val, !.err = r.err,
                                                     !.opens = o.opens]
       /\ UNCHANGED <<repoVars, cachedRepoRoot, cachedRules>>

GetStagedDiff ==
  \E fail \in DiffFails :
    LET o == openRepo(fail)
        err == diffSetup(fail)
    IN /\ repo' = o.cRepo
       /\ repoPath' = o.cPath
       /\ handles' = handlesAfter(o)
       /\ UNCHANGED threads
       /\ IF err # Nil
          THEN last' = [Result("GetStagedDiff") EXCEPT !.err = err, !.opens = o.opens]
          ELSE \E order \in Orders, rd \in ReadChoices :
                 LET d == getStagedDiff(order, rd, fail)
                     again == last.op = "GetStagedDiff" /\ last.err = Nil
                     blobs(reads) == {r \in reads : r.kind = "blob"}
                 IN last' = [d EXCEPT !.opens = o.opens,
                                      !.again = again,
                                      !.same = again /\ d.diff = last.diff,
                                      !.sameBlobs = again /\ blobs(d.reads) = blobs(last.reads)]
       /\ UNCHANGED <<repoVars, cachedRepoRoot, cachedRules>>

CommitWithMessage ==
  \E message \in Messages, fail \in CommitFails :
    LET o == openRepo(fail)
        err == commitWithMessage(message, fail)
        stored == objectStored(message, fail)
    IN /\ stored => commits < MaxCommits
       /\ repo' = o.cRepo
       /\ repoPath' = o.cPath
       /\ handles' = handlesAfter(o)
       /\ UNCHANGED threads
       /\ commits' = IF stored THEN commits + 1 ELSE commits
       /\ IF err = Nil
          THEN /\ headRef' = commits + 1
               /\ headTree' = CommittedTree
               /\ status' = CommittedStatus
          ELSE UNCHANGED <<headRef, headTree, status>>
       /\ last' = [Result("CommitWithMessage") EXCEPT !.err = err, !.msg = message,
                                                      !.opens = o.opens,
                                                      !.stored = stored]
       /\ UNCHANGED <<gitDir, work, userName, userEmail, configFile, hookFile, envKey, rulesFile, cwd,
                      cachedRepoRoot, cachedRules>>

LoadRules ==
  \E fail \in RulesFails :
    LET l == loadRules(fail)
    IN /\ cachedRepoRoot' = l.cRoot
       /\ cachedRules' = l.cRules
       /\ last' = [Result("LoadRules") EXCEPT
                     !.argRules = l.rules, !.rules = l.rules, !.err = l.err,
                     !.reads = IF rulesFileRead THEN {RulesRead} ELSE {},
                     !.val = rulesFileRead /\ l.err = Nil /\ ~rulesFile.ok,
                     !.again = last.op = "LoadRules" /\ last.val]
       /\ UNCHANGED <<repoVars, repo, repoPath, handles, threads>>

\* fmt.Printf("Warning: failed to load rules: %v. Proceeding without rules.\n", err)
rulesWarning(err) ==
  IF err # Nil
  THEN "Warning: failed to load rules: " \o err \o ". Proceeding without rules.\n"
  ELSE ""

\* faulty variant: the arguments change places
generatorArgsSwapped(diff, rules) == [diff |-> rules, rules |-> diff]

\* a.AI.GenerateCommitMessage(diff, rules)
generatorArgs(diff, rules) == [diff |-> diff, rules |-> rules]

\* App.Run; the client methods after IsInsideRepo find the handle in the cache
Run ==
  \E f0 \in OpenFails :
    LET o == openRepo(f0)
        inside == isInsideRepo(f0)
        res == [Result("Run") EXCEPT !.opens = o.opens]
        c1 == <<"IsInsideRepo">>
        c2 == c1 \o <<"HasStagedChanges">>
        c3 == c2 \o <<"LoadRules">>
        c4 == c3 \o <<"GetStagedDiff">>
        c5 == c4 \o <<"GenerateCommitMessage">>
    IN /\ repo' = o.cRepo
       /\ repoPath' = o.cPath
       /\ handles' = handlesAfter(o)
       /\ UNCHANGED threads
       /\ UNCHANGED repoVars
       /\ IF inside.err # Nil
          THEN /\ last' = [res EXCEPT !.calls = c1, !.rets = <<"error">>,
                                      !.err = "failed to check repository status: " \o inside.err]
               /\ UNCHANGED <<cachedRepoRoot, cachedRules>>
          ELSE IF ~inside.val
          THEN /\ last' = [res EXCEPT !.calls = c1, !.rets = <<"false">>,
                                      !.err = "not a git repository"]
               /\ UNCHANGED <<cachedRepoRoot, cachedRules>>
          ELSE \E f1 \in StatusFails \ {"open"} :
            LET h == hasStagedChanges(f1)
            IN IF h.err # Nil
               THEN /\ last' = [res EXCEPT !.calls = c2, !.rets = <<"true", "error">>,
                                           !.err = "failed to check for staged changes: " \o h.err]
                    /\ UNCHANGED <<cachedRepoRoot, cachedRules>>
               ELSE IF ~h.val
               THEN /\ last' = [res EXCEPT !.calls = c2, !.rets = <<"true", "false">>,
                                  !.err = "no staged changes found. Please stage your changes using 'git add'"]
                    /\ UNCHANGED <<cachedRepoRoot, cachedRules>>
               ELSE \E lf \in RulesFails :
                 LET l == loadRules(lf)
                     r3 == <<"true", "true", IF l.err # Nil THEN "error" ELSE "ok">>
                     res3 == [res EXCEPT !.val = h.val, !.rules = l.rules,
                                         !.warn = rulesWarning(l.err)]
                 IN /\ cachedRepoRoot' = l.cRoot
                    /\ cachedRules' = l.cRules
                    /\ \E f2 \in DiffFails \ {"open"} :
                         IF diffSetup(f2) # Nil
                         THEN last' = [res3 EXCEPT !.calls = c4, !.rets = r3 \o <<"error">>,
                                                   !.err = "failed to get diff: " \o diffSetup(f2)]
                         ELSE \E order \in Orders, rd \in ReadChoices, ai \in AIOutcomes :
                                LET d == getStagedDiff(order, rd, f2)
                                    args == generatorArgs(d.diff, l.rules)
                                IN last' = [res3 EXCEPT
                                      !.calls = c5,
                                      !.rets = r3 \o <<"ok", IF ai.err # Nil THEN "error" ELSE "ok">>,
                                      !.diff = d.diff, !.frags = d.frags, !.reads = d.reads,
                                      !.argDiff = args.diff, !.argRules = args.rules,
                                      !.msg = ai.msg,
                                      !.err = IF ai.err # Nil
                                              THEN "failed to generate commit message: " \o ai.err
                                              ELSE Nil]

Next ==
  \/ IsInsideRepo
  \/ HasStagedChanges
  \/ GetStagedDiff
  \/ CommitWithMessage
  \/ LoadRules
  \/ Run

Spec == Init /\ [][Next]_vars

(***************************************************************************)
(* The same operations with a process that changes its working directory   *)
(* and creates the repository                                              *)
(***************************************************************************)
\* repositories in which neither directory holds a file at a path of the status
DirSetups ==
  NoRepoSetups
    \cup {Setup(TRUE, TRUE, sc, "", "test@example.com", File(RulesText)) :
            sc \in {Pair(NotInStatus, NotInStatus),
                    Pair(Sc(TRUE, Deleted, Unmodified, "", NoFile, File("hello\n")), NotInStatus)}}

InitDirs == InitFrom(DirSetups)

\* os.Chdir(d)
Chdir ==
  \E d \in Dirs \ {cwd} :
    /\ cwd' = d
    /\ last' = Result("Chdir")
    /\ UNCHANGED <<gitDir, status, work, headTree, userName, userEmail, configFile, hookFile, envKey, commits, headRef,
                   rulesFile, repo, repoPath, cachedRepoRoot, cachedRules, handles, threads>>

\* git.PlainInit(wd, false) in a directory without repository; val records that
\* it follows an IsInsideRepo that returned false
PlainInit ==
  /\ ~gitDir
  /\ cwd = WorkDir
  /\ gitDir' = TRUE
  /\ last' = [Result("PlainInit") EXCEPT
                !.val = (last.op = "IsInsideRepo" /\ last.err = Nil /\ ~last.val)]
  /\ UNCHANGED <<status, work, headTree, userName, userEmail, configFile, hookFile, envKey, commits, headRef,
                 rulesFile, repo, repoPath, cachedRepoRoot, cachedRules, cwd, handles, threads>>

(***************************************************************************)
(* openRepo called by several goroutines on one client, statement by       *)
(* statement; the working directory does not change                        *)
(***************************************************************************)
\* a goroutine enters openRepo and arrives at c.mu.Lock()
OpenRepoCall(t) ==
  /\ threads.pc[t] = "idle"
  /\ threads' = [threads EXCEPT !.pc[t] = "lock"]
  /\ UNCHANGED <<repoVars, repo, repoPath, handles, cachedRepoRoot, cachedRules, last>>

\* c.mu.Lock()
OpenRepoLock(t) ==
  /\ threads.pc[t] = "lock"
  /\ muFree
  /\ threads' = [threads EXCEPT !.pc[t] = "getwd", !.mu = t]
  /\ UNCHANGED <<repoVars, repo, repoPath, handles, cachedRepoRoot, cachedRules, last>>

\* wd, err := os.Getwd() and the test of the cache
OpenRepoCheck(t) ==
  /\ threads.pc[t] = "getwd"
  /\ IF repo # Nil /\ repoPath = cwd
     THEN threads' = [threads EXCEPT !.pc[t] = "unlock", !.wd[t] = cwd,
                                     !.ret[t] = [repo |-> repo, err |-> Nil, path |-> repoPath]]
     ELSE threads' = [threads EXCEPT !.pc[t] = "open", !.wd[t] = cwd]
  /\ UNCHANGED <<repoVars, repo, repoPath, handles, cachedRepoRoot, cachedRules, last>>

\* git.PlainOpenWithOptions(wd, ...)
OpenRepoOpen(t) ==
  /\ threads.pc[t] = "open"
  /\ \E fail \in {"none", "open"} :
       IF fail = "open"
       THEN /\ threads' = [threads EXCEPT !.pc[t] = "unlock",
                              !.ret[t] = [repo |-> Nil, err |-> ErrOpen, path |-> ""]]
            /\ UNCHANGED handles
       ELSE IF ~gitDir
       THEN /\ threads' = [threads EXCEPT !.pc[t] = "unlock",
                              !.ret[t] = [repo |-> Nil, err |-> ErrRepositoryNotExists,
                                          path |-> ""]]
            /\ UNCHANGED handles
       ELSE /\ threads' = [threads EXCEPT !.pc[t] = "store",
                              !.local[t] = RepoHandle(threads.wd[t]),
                              !.opened = threads.opened + 1]
            /\ handles' = handles \cup {RepoHandle(threads.wd[t])}
  /\ UNCHANGED <<repoVars, repo, repoPath, cachedRepoRoot, cachedRules, last>>

\* c.repo = repo; c.repoPath = wd; return repo, nil
OpenRepoStore(t) ==
  /\ threads.pc[t] = "store"
  /\ repo' = threads.local[t]
  /\ repoPath' = threads.wd[t]
  /\ threads' = [threads EXCEPT !.pc[t] = "unlock",
                    !.ret[t] = [repo |-> threads.local[t], err |-> Nil,
                                path |-> threads.wd[t]]]
  /\ UNCHANGED <<repoVars, handles, cachedRepoRoot, cachedRules, last>>

\* the deferred c.mu.Unlock()
OpenRepoUnlock(t) ==
  /\ threads.pc[t] = "unlock"
  /\ threads' = [threads EXCEPT !.pc[t] = "done", !.mu = 0]
  /\ UNCHANGED <<repoVars, repo, repoPath, handles, cachedRepoRoot, cachedRules, last>>

NextThreads ==
  \E t \in Callers :
    \/ OpenRepoCall(t)
    \/ OpenRepoLock(t)
    \/ OpenRepoCheck(t)
    \/ OpenRepoOpen(t)
    \/ OpenRepoStore(t)
    \/ OpenRepoUnlock(t)

SpecThreads == InitDirs /\ [][NextThreads]_vars

\* the rules file is written, rewritten or removed by an editor
RulesFiles == {NoFile, File(RulesText), File("Keep it short\n")}

EditRules ==
  \E f \in RulesFiles \ {rulesFile} :
    /\ rulesFile' = f
    /\ last' = Result("EditRules")
    /\ UNCHANGED <<gitDir, status, work, headTree, userName, userEmail, configFile, hookFile, envKey, commits, headRef,
                   cwd, repo, repoPath, cachedRepoRoot, cachedRules, handles, threads>>

NextRules ==
  \/ LoadRules
  \/ Run
  \/ EditRules

SpecRules == InitDirs /\ [][NextRules]_vars

(***************************************************************************)
(* The config loader and 'init' in a repository whose files come and go    *)
(***************************************************************************)
EnvKeys == {"", "env-key"}

\* config files a user may have written
UserConfigs ==
  {NoConfig,
   ConfigFile(FALSE, [none |-> ""]),
   ConfigFile(TRUE, [model |-> "llama3"]),
   ConfigFile(TRUE, [api_key |-> "file-key", timeout_seconds |-> 30]),
   ConfigFile(TRUE, [api_key |-> "", model |-> "", base_url |-> "http://other/api"])}

\* os.Setenv("OLLAMA_API_KEY", k)
Setenv ==
  \E k \in EnvKeys \ {envKey} :
    /\ envKey' = k
    /\ last' = Result("Setenv")
    /\ UNCHANGED <<gitDir, status, work, headTree, userName, userEmail, configFile, hookFile,
                   commits, headRef, rulesFile, cwd, repo, repoPath, cachedRepoRoot,
                   cachedRules, handles, threads>>

\* the config file is written or removed by an editor
EditConfig ==
  \E f \in UserConfigs :
    /\ f # configFile
    /\ configFile' = f
    /\ last' = Result("EditConfig")
    /\ UNCHANGED <<gitDir, status, work, headTree, userName, userEmail, hookFile, envKey,
                   commits, headRef, rulesFile, cwd, repo, repoPath, cachedRepoRoot,
                   cachedRules, handles, threads>>

LoadConfig ==
  /\ last' = [Result("LoadConfig") EXCEPT
                !.cfg = loadConfig.cfg, !.err = loadConfig.err,
                !.again = last.op = "SaveDefaultConfig" /\ last.err = Nil]
  /\ UNCHANGED <<repoVars, repo, repoPath, cachedRepoRoot, cachedRules, handles, threads>>

\* SaveDefaultConfig(repoRoot) with the root of the repository
SaveDefaultConfig ==
  \E fail \in {"none", "config"} :
    /\ configFile' = IF fail = "config" THEN configFile ELSE savedConfig
    /\ last' = [Result("SaveDefaultConfig") EXCEPT
                  !.err = IF fail = "config" THEN "failed to write config file: io" ELSE Nil,
                  !.cfg = IF fail = "config" THEN NoCfg ELSE [DefaultCfg EXCEPT !.APIKey = envKey]]
    /\ UNCHANGED <<gitDir, status, work, headTree, userName, userEmail, hookFile, envKey,
                   commits, headRef, rulesFile, cwd, repo, repoPath, cachedRepoRoot,
                   cachedRules, handles, threads>>

ConfigExists ==
  \E fail \in {"none", "stat"} :
    LET e == configExists(fail)
    IN /\ last' = [Result("ConfigExists") EXCEPT
                     !.val = e.val, !.err = e.err,
                     !.again = last.op = "SaveDefaultConfig" /\ last.err = Nil]
       /\ UNCHANGED <<repoVars, repo, repoPath, cachedRepoRoot, cachedRules, handles,
                      threads>>

\* App.Init; val records that it found a config file and reported the
\* repository as already initialized
AppInit ==
  \E fail \in InitFails :
    LET o == openRepo(fail)
        inside == isInsideRepo(fail)
        root == getRepoRoot(fail)
        e == configExists(fail)
        res == [Result("Init") EXCEPT !.opens = o.opens]
        stop(err) ==
          /\ last' = [res EXCEPT !.err = err]
          /\ UNCHANGED <<configFile, rulesFile, hookFile>>
    IN /\ repo' = o.cRepo
       /\ repoPath' = o.cPath
       /\ handles' = handlesAfter(o)
       /\ UNCHANGED <<gitDir, status, work, headTree, userName, userEmail, envKey,
                      commits, headRef, cwd, cachedRepoRoot, cachedRules, threads>>
       /\ IF inside.err # Nil
          THEN stop("failed to check repository status: " \o inside.err)
          ELSE IF ~inside.val
          THEN stop("not a git repository. Please run this command from within a git repository")
          ELSE IF root.err # Nil
          THEN stop("failed to get repository root: " \o root.err)
          ELSE IF e.err # Nil
          THEN stop("failed to check config existence: " \o e.err)
          ELSE IF e.val
          THEN /\ last' = [res EXCEPT !.val = TRUE]
               /\ UNCHANGED <<configFile, rulesFile, hookFile>>
          ELSE LET ws == initWrites(fail)
               IN /\ configFile' = IF Wrote(ws, "config") THEN savedConfig ELSE configFile
                  /\ rulesFile' = IF Wrote(ws, "rules") THEN File(DefaultRules) ELSE rulesFile
                  /\ hookFile' = IF Wrote(ws, "hook") THEN File(HookScript) ELSE hookFile
                  /\ last' = [res EXCEPT !.err = initError(fail), !.writes = ws,
                                         !.rules = IF rulesFile.ok THEN rulesFile.data ELSE "",
                                         !.again = rulesFile.ok]

NextConfig ==
  \/ LoadConfig
  \/ SaveDefaultConfig
  \/ ConfigExists
  \/ AppInit
  \/ Setenv
  \/ EditConfig
  \/ EditRules

SpecConfig == InitDirs /\ [][NextConfig]_vars

\* 'init' run again and again, from either directory, the rules file edited in between
NextInit ==
  \/ AppInit
  \/ Chdir
  \/ EditRules

SpecInit == InitDirs /\ [][NextInit]_vars

\* os.RemoveAll of the .git directory: the repository and all it held, the hooks
\* among it, are gone; the files of the working directory stay
RemoveRepo ==
  /\ gitDir
  /\ gitDir' = FALSE
  /\ status' = [p \in {} |-> [Staging |-> Unmodified, Worktree |-> Unmodified, Extra |-> ""]]
  /\ headTree' = [p \in Paths |-> NoFile]
  /\ headRef' = 0
  /\ commits' = 0
  /\ last' = [Result("RemoveRepo") EXCEPT
                !.val = (last.op = "IsInsideRepo" /\ last.err = Nil /\ last.val)]
  /\ hookFile' = NoFile
  /\ UNCHANGED <<work, userName, userEmail, configFile, envKey, rulesFile, cwd, repo, repoPath,
                 cachedRepoRoot, cachedRules, handles, threads>>

\* a client asked again and again while the repository comes and goes
NextRemoval ==
  \/ IsInsideRepo
  \/ Chdir
  \/ PlainInit
  \/ RemoveRepo

SpecRemoval == InitDirs /\ [][NextRemoval]_vars

NextDirs ==
  \/ Next
  \/ Chdir
  \/ PlainInit

SpecDirs == InitDirs /\ [][NextDirs]_vars

(***************************************************************************)
(* The Ollama client on its own: calls of GenerateCommitMessage against    *)
(* services that rate-limit and fail                                       *)
(***************************************************************************)
AIDiffs == {"diff --git a/hello.txt b/hello.txt\nnew file mode 100644\n+hello\n",
            "diff --git a/b b/b\ndeleted file mode 100644\n-x\n",
            ""}
AIRules == {"", RulesText}

InitAI == InitFrom(NoRepoSetups)

GenerateCommitMessage ==
  \E diff \in AIDiffs, rules \in AIRules, srv \in Services :
    LET g == generateCommitMessage(diff, rules, srv)
    IN /\ last' = [Result("GenerateCommitMessage") EXCEPT
                     !.err = g.err, !.msg = g.msg, !.prompt = g.prompt,
                     !.argDiff = diff, !.argRules = rules,
                     !.requests = g.requests, !.sleeps = g.sleeps,
                     !.answers = g.answers]
       /\ UNCHANGED <<repoVars, repo, repoPath, handles, cachedRepoRoot, cachedRules,
                     threads>>

NextAI == GenerateCommitMessage

SpecAI == InitAI /\ [][NextAI]_vars

SpecBig == InitBig /\ [][Next]_vars

(***************************************************************************)
(* Notions the properties are stated with                                  *)
(***************************************************************************)
IsPrefix(pre, s) == Len(s) >= Len(pre) /\ SubSeq(s, 1, Len(pre)) = pre

Contains(s, sub) == \E i \in 1..(Len(s) - Len(sub) + 1) : SubSeq(s, i, i + Len(sub) - 1) = sub

RECURSIVE JoinFrom(_, _)
JoinFrom(lines, i) ==
  IF i > Len(lines) THEN ""
  ELSE IF i = Len(lines) THEN lines[i]
  ELSE lines[i] \o "\n" \o JoinFrom(lines, i + 1)

\* the lines joined by "\n"
Join(lines) == JoinFrom(lines, 1)

\* the lines of a text in which every line ends with "\n"
LinesOf(text) == LET pieces == Split(text) IN SubSeq(pieces, 1, Len(pieces) - 1)

\* index of the first line equal to l, 0 when there is none
LineAt(lines, l) ==
  LET I == {i \in 1..Len(lines) : lines[i] = l}
  IN IF I = {} THEN 0 ELSE CHOOSE i \in I : \A j \in I : i <= j

\* the lines after line number k
LinesAfter(lines, k) == SubSeq(lines, k + 1, Len(lines))

Prefixed(pfx, lines) == \A i \in 1..Len(lines) : SubSeq(lines[i], 1, 1) = pfx

Stripped(lines) == [i \in 1..Len(lines) |-> SubSeq(lines[i], 2, Len(lines[i]))]

\* the last operation was a GetStagedDiff that returned a diff
DiffReturned == last.op = "GetStagedDiff" /\ last.err = Nil

\* the fragments the last pass wrote for path p
FragmentsOf(p) == {k \in 1..Len(last.frags) : last.frags[k].path = p}

FragmentOf(p) == last.frags[CHOOSE k \in FragmentsOf(p) : TRUE].text

\* the blob of p was opened and read in the last pass, delivering n bytes
BlobReadOf(p, n) == [kind |-> "blob", path |-> p, n |-> n] \in last.reads

NoStagedError == "no staged changes found. Please stage your changes using 'git add'"

(***************************************************************************)
(* C1: truncation law                                                      *)
(***************************************************************************)
\* C1: when the concatenation of the fragments of a pass is longer than 10,000
\* characters, GetStagedDiff returns its first 10,000 characters followed by
\* "\n...[TRUNCATED]"; a concatenation of 10,000 characters or fewer is returned
\* unchanged.
C1_TruncationLaw ==
  DiffReturned =>
    LET full == Concat(last.frags, 1)
    IN IF Len(full) > 10000
       THEN /\ Len(last.diff) = 10000 + 15
            /\ SubSeq(last.diff, 1, 10000) = SubSeq(full, 1, 10000)
            /\ SubSeq(last.diff, 10001, 10015) = "\n...[TRUNCATED]"
       ELSE last.diff = full

\* a diff one character over the limit was cut
C1_Witness ==
  /\ DiffReturned
  /\ Len(Concat(last.frags, 1)) = 10001
  /\ Len(last.diff) = 10015

\* a diff of exactly the limit came back whole
C1_WitnessAtLimit ==
  /\ DiffReturned
  /\ Len(Concat(last.frags, 1)) = 10000
  /\ last.diff = Concat(last.frags, 1)

(***************************************************************************)
(* C2: nothing staged                                                      *)
(***************************************************************************)
\* Run got past the repository check and read the status
RunReadStatus ==
  /\ last.op = "Run"
  /\ gitDir
  /\ ~IsPrefix("failed to check", last.err)

RunStoppedAtStatus ==
  /\ last.err = NoStagedError
  /\ last.calls = <<"IsInsideRepo", "HasStagedChanges">>

C3_WitnessWorktreeOnly ==
  /\ last.op = "HasStagedChanges"
  /\ last.err = Nil
  /\ ~last.val
  /\ \E p \in DOMAIN status : status[p].Staging = Unmodified /\ status[p].Worktree = Modified

(***************************************************************************)
(* C4: fragment of an added file                                           *)
(***************************************************************************)
\* C4: the fragment of a staged added file f whose working copy reads as C starts
\* with 'diff --git a/f b/f', has the line '--- /dev/null' and after it the line
\* '+++ b/f', and then the lines of C, each prefixed '+', in order; with
\* hello.txt = "hello\n" as the only path, the diff has exactly one line '+hello'.
C4_AddedFragment ==
  DiffReturned =>
    /\ \A f \in DOMAIN status :
         (status[f].Staging = Added /\ work[f].ok) =>
           /\ Cardinality(FragmentsOf(f)) = 1
           /\ LET lines == LinesOf(FragmentOf(f))
                  k == LineAt(lines, "+++ b/" \o f)
                  body == LinesAfter(lines, k)
              IN /\ lines[1] = "diff --git a/" \o f \o " b/" \o f
                 /\ LineAt(lines, "--- /dev/null") > 0
                 /\ k > LineAt(lines, "--- /dev/null")
                 /\ Prefixed("+", body)
                 /\ Join(Stripped(body)) = work[f].data
    /\ (/\ DOMAIN status = {"hello.txt"}
        /\ status["hello.txt"].Staging = Added
        /\ work["hello.txt"] = File("hello\n")) =>
         /\ IsPrefix("diff --git a/hello.txt b/hello.txt\n", last.diff)
         /\ LineAt(LinesOf(last.diff), "--- /dev/null") > 0
         /\ Cardinality({i \in 1..Len(LinesOf(last.diff)) : LinesOf(last.diff)[i] = "+hello"}) = 1

\* the diff of the single added file hello.txt was returned
C4_Witness ==
  /\ DiffReturned
  /\ DOMAIN status = {"hello.txt"}
  /\ status["hello.txt"].Staging = Added
  /\ work["hello.txt"] = File("hello\n")
  /\ LineAt(LinesOf(last.diff), "+hello") > 0

\* an added file of two lines next to another staged file
C4_WitnessTwoLines ==
  /\ DiffReturned
  /\ Len(last.frags) = 2
  /\ \E f \in DOMAIN status :
       /\ status[f].Staging = Added
       /\ work[f] = File("x\ny")
       /\ Contains(FragmentOf(f), "\n+x\n+y\n")

(***************************************************************************)
(* C5: fragment of a deleted file                                          *)
(***************************************************************************)
\* the fragment of p has the header lines of a deletion and the body lines, each
\* prefixed '-', spell the content
DeletedBodyIs(p, content) ==
  /\ Cardinality(FragmentsOf(p)) = 1
  /\ LET lines == LinesOf(FragmentOf(p))
         k == LineAt(lines, "+++ /dev/null")
         body == LinesAfter(lines, k)
     IN /\ LineAt(lines, "deleted file mode 100644") > 0
        /\ LineAt(lines, "--- a/" \o p) > 0
        /\ k > 0
        /\ Prefixed("-", body)
        /\ Join(Stripped(body)) = content

\* C5 as stated: the fragment of a staged deleted file whose blob in the HEAD tree
\* is C and was read has 'deleted file mode 100644', '--- a/<path>',
\* '+++ /dev/null' and then every line of the complete C prefixed '-', in order,
\* however the reader delivers C.
C5_AsStated ==
  DiffReturned =>
    \A p \in DOMAIN status :
      (/\ status[p].Staging = Deleted
       /\ headRef # 0 /\ headTree[p].ok
       /\ \E n \in 0..Len(headTree[p].data) : BlobReadOf(p, n)) =>
        DeletedBodyIs(p, headTree[p].data)

\* the statement of C5 for the passes whose single Read delivered the whole blob
C5_WhenReadWhole ==
  DiffReturned =>
    \A p \in DOMAIN status :
      (/\ status[p].Staging = Deleted
       /\ headRef # 0 /\ headTree[p].ok
       /\ BlobReadOf(p, Len(headTree[p].data))) =>
        DeletedBodyIs(p, headTree[p].data)

(***************************************************************************)
(* C6: fragment of a modified file                                         *)
(***************************************************************************)
ModifiedBodyIs(p, old, new) ==
  /\ Cardinality(FragmentsOf(p)) = 1
  /\ LET lines == LinesOf(FragmentOf(p))
         k == LineAt(lines, "+++ b/" \o p)
         body == LinesAfter(lines, k)
         O == Split(old)
         N == Split(new)
     IN /\ k > 0
        /\ Len(body) = Len(O) + Len(N)
        /\ \A i \in 1..Len(O) : body[i] = "-" \o O[i]
        /\ \A j \in 1..Len(N) : body[Len(O) + j] = "+" \o N[j]

\* C6 as stated: the body of the fragment of a staged modified file with HEAD
\* content O and working copy N is all lines of O prefixed '-' followed by all
\* lines of N prefixed '+', nothing omitted.
C6_AsStated ==
  DiffReturned =>
    \A p \in DOMAIN status :
      (/\ status[p].Staging = Modified
       /\ headRef # 0 /\ headTree[p].ok /\ work[p].ok
       /\ \E n \in 0..Len(headTree[p].data) : BlobReadOf(p, n)) =>
        ModifiedBodyIs(p, headTree[p].data, work[p].data)

\* the statement of C6 for the passes whose single Read delivered the whole blob
C6_WhenReadWhole ==
  DiffReturned =>
    \A p \in DOMAIN status :
      (/\ status[p].Staging = Modified
       /\ headRef # 0 /\ headTree[p].ok /\ work[p].ok
       /\ BlobReadOf(p, Len(headTree[p].data))) =>
        ModifiedBodyIs(p, headTree[p].data, work[p].data)

WrittenPaths == {p \in DOMAIN status : status[p].Staging \in {Added, Modified, Deleted, Renamed}}

\* paths whose fragment takes its body from a blob of the HEAD tree
BlobPaths ==
  {p \in DOMAIN status : status[p].Staging \in {Modified, Deleted} /\ headRef # 0 /\ headTree[p].ok}

C7_WitnessBlob ==
  /\ DiffReturned
  /\ last.again
  /\ last.same
  /\ WrittenPaths = BlobPaths
  /\ \E r \in last.reads : r.kind = "blob"
  /\ last.sameBlobs

C8_WitnessName ==
  /\ last.op = "CommitWithMessage"
  /\ userName = ""
  /\ Contains(last.err, "user.name")

(***************************************************************************)
(* C9: fragment of a renamed path                                          *)
(***************************************************************************)
\* C9: the fragment of a staged renamed path consists of exactly the three lines
\* 'diff --git a/<oldPath> b/<newPath>', 'rename from <oldPath>' and
\* 'rename to <newPath>', and the pass reads neither the HEAD blob nor the working
\* copy of that path.
C9_RenamedFragment ==
  DiffReturned =>
    \A p \in DOMAIN status :
      status[p].Staging = Renamed =>
        /\ Cardinality(FragmentsOf(p)) = 1
        /\ Split(FragmentOf(p)) =
             <<"diff --git a/" \o status[p].Extra \o " b/" \o p,
               "rename from " \o status[p].Extra,
               "rename to " \o p,
               "">>
        /\ \A r \in last.reads : r.path # p

\* the fragment of a rename was written
C9_Witness ==
  /\ DiffReturned
  /\ \E p \in DOMAIN status :
       /\ status[p].Staging = Renamed
       /\ status[p].Extra # p
       /\ FragmentsOf(p) # {}
       /\ Contains(last.diff, "rename from " \o status[p].Extra)

(***************************************************************************)
(* C10: one fragment per staged path                                       *)
(***************************************************************************)
\* C10 as stated: in one pass every path with index state Added, Modified,
\* Deleted, Renamed or Copied gets exactly one fragment, which begins with
\* 'diff --git', and every path with index state Unmodified or Untracked gets none.
C10_AsStated ==
  DiffReturned =>
    \A p \in DOMAIN status :
      /\ status[p].Staging \in {Added, Modified, Deleted, Renamed, Copied} =>
           /\ Cardinality(FragmentsOf(p)) = 1
           /\ IsPrefix("diff --git ", FragmentOf(p))
      /\ status[p].Staging \in {Unmodified, Untracked} => FragmentsOf(p) = {}

\* the statement of C10 without the Copied state
C10_SwitchCasesOnly ==
  DiffReturned =>
    \A p \in DOMAIN status :
      /\ status[p].Staging \in {Added, Modified, Deleted, Renamed} =>
           /\ Cardinality(FragmentsOf(p)) = 1
           /\ IsPrefix("diff --git ", FragmentOf(p))
      /\ status[p].Staging \in {Unmodified, Untracked} => FragmentsOf(p) = {}

(***************************************************************************)
(* C11: repository without commits                                         *)
(***************************************************************************)
\* the error of a step before the HEAD lookup: repository, worktree or status
EarlierPhaseError(err) ==
  \/ IsPrefix("failed to open repository: ", err)
  \/ IsPrefix("failed to get worktree: ", err)
  \/ IsPrefix("failed to get status: ", err)

\* the body lines of the fragment of p: the lines after the line l
BodyOf(p, l) ==
  LET lines == LinesOf(FragmentOf(p)) IN LinesAfter(lines, LineAt(lines, l))

\* C11: in a repository whose HEAD reference is not found, GetStagedDiff returns
\* no error unless the repository, worktree or status step failed or the HEAD
\* lookup failed for another reason than 'reference not found'; when it returns
\* a diff, no blob was read, every Added, Modified and Deleted path has its
\* fragment, and the old content of each is absent: no '-' line for a Deleted
\* path, one empty '-' line for a Modified one.
C11_NoHead ==
  (last.op = "GetStagedDiff" /\ headRef = 0) =>
    /\ last.err # Nil =>
         \/ EarlierPhaseError(last.err)
         \/ /\ IsPrefix("failed to get HEAD: ", last.err)
            /\ ~Contains(last.err, "reference not found")
    /\ last.err = Nil =>
         /\ \A r \in last.reads : r.kind # "blob"
         /\ \A p \in DOMAIN status :
              /\ status[p].Staging \in {Added, Modified, Deleted} =>
                   Cardinality(FragmentsOf(p)) = 1
              /\ status[p].Staging = Deleted => BodyOf(p, "+++ /dev/null") = <<>>
              /\ status[p].Staging = Modified =>
                   /\ Len(BodyOf(p, "+++ b/" \o p)) >= 1
                   /\ BodyOf(p, "+++ b/" \o p)[1] = "-"
                   /\ \A i \in 2..Len(BodyOf(p, "+++ b/" \o p)) :
                        SubSeq(BodyOf(p, "+++ b/" \o p)[i], 1, 1) = "+"

\* a diff of an added and a deleted path was returned without HEAD
C11_Witness ==
  /\ DiffReturned
  /\ headRef = 0
  /\ Len(last.frags) = 2
  /\ \E p, q \in DOMAIN status : status[p].Staging = Added /\ status[q].Staging = Deleted

\* a diff of a modified path was returned without HEAD
C11_WitnessModified ==
  /\ DiffReturned
  /\ headRef = 0
  /\ \E p \in DOMAIN status : status[p].Staging = Modified /\ FragmentsOf(p) # {}

\* the HEAD lookup failed for another reason
C11_WitnessHeadFailure ==
  /\ last.op = "GetStagedDiff"
  /\ headRef = 0
  /\ last.err = "failed to get HEAD: io"

(***************************************************************************)
(* C12: content that cannot be read                                        *)
(***************************************************************************)
\* the HEAD tree has a blob for p and the last pass did not read it
BlobUnread(p) == p \in BlobPaths /\ \A r \in last.reads : ~(r.kind = "blob" /\ r.path = p)

\* the lines of body that start with pfx carry nothing after it
NoContent(pfx, body) ==
  \A i \in 1..Len(body) : SubSeq(body[i], 1, 1) = pfx => body[i] = pfx

C12_WitnessBlob ==
  /\ DiffReturned
  /\ Len(last.frags) = 2
  /\ \E p \in DOMAIN status : status[p].Staging = Modified /\ BlobUnread(p)

\* the working copy of a modified path could not be read
C12_WitnessModifiedFile ==
  /\ DiffReturned
  /\ \E p \in DOMAIN status : status[p].Staging = Modified /\ ~work[p].ok /\ FragmentsOf(p) # {}

(***************************************************************************)
(* C13: the cached repository handle                                       *)
(***************************************************************************)
\* the operations that call openRepo
OpeningOps == {"IsInsideRepo", "HasStagedChanges", "GetStagedDiff", "CommitWithMessage", "Run"}

\* C13: an operation calls PlainOpenWithOptions iff the cached working directory
\* differs from the current one; when they are equal the cached handle stays and
\* no handle is added; no step removes a handle.
C13_ReopenIffDirChanged ==
  [][/\ last'.op \in OpeningOps =>
          /\ last'.opens = 1 <=> repoPath # cwd
          /\ repoPath = cwd => (repo' = repo /\ repoPath' = repoPath /\ handles' = handles)
     /\ handles \subseteq handles']_vars

\* the repository was opened again after a change of directory
C13_Witness ==
  /\ last.op \in OpeningOps
  /\ last.opens = 1
  /\ handles = {RepoHandle(WorkDir), RepoHandle(SubDir)}
  /\ repoPath = cwd

\* an operation found the handle in the cache
C13_WitnessCached ==
  /\ last.op \in OpeningOps
  /\ last.opens = 0
  /\ repo # Nil
  /\ repoPath = cwd

(***************************************************************************)
(* C14: outside a repository                                               *)
(***************************************************************************)
\* C14: IsInsideRepo returns (false, nil) when no repository marker exists and
\* (true, nil) when one does; any other failure to open is returned as an error;
\* a call that does not return true leaves the cached handle and directory as
\* they were, and a call that follows the creation of the repository returns true.
C14_IsInsideRepo ==
  [][last'.op = "IsInsideRepo" =>
       /\ last'.err = Nil => (last'.val <=> gitDir)
       /\ last'.err # Nil =>
            (~last'.val /\ last'.err # ErrRepositoryNotExists /\ last'.opens = 1)
       /\ ~last'.val => (repo' = repo /\ repoPath' = repoPath /\ handles' = handles)
       /\ (last'.again /\ last'.err = Nil) => last'.val]_vars

\* the same client answered false, the repository was created, and it answers true
C14_Witness ==
  /\ last.op = "IsInsideRepo"
  /\ last.again
  /\ last.val
  /\ last.opens = 1

\* an open failed for another reason than a missing repository
C14_WitnessOtherFailure ==
  /\ last.op = "IsInsideRepo"
  /\ last.err = ErrOpen
  /\ ~last.val

(***************************************************************************)
(* C15, C16: the retry policy of GenerateCommitMessage                     *)
(***************************************************************************)
Generated == last.op = "GenerateCommitMessage"

Succeeds(a) == a.err = Nil /\ a.code = 200 /\ a.json /\ a.response # ""

\* C15: while the service answers 429 the request is retried at most 3 times, 4
\* requests in all, after waits of 2, 4 and 8 seconds; a 4th 429 ends the call
\* with 'rate limit exceeded after 3 retries', and a success on an attempt ends
\* the loop with the response of that attempt.
C15_RetryPolicy ==
  Generated =>
    LET n == last.requests
    IN /\ n = Len(last.answers) /\ n >= 1 /\ n <= 4
       /\ last.sleeps = SubSeq(<<2, 4, 8>>, 1, n - 1)
       /\ \A i \in 1..(n - 1) : last.answers[i] = Rate429
       /\ last.answers[n] = Rate429 =>
            /\ n = 4
            /\ Contains(last.err, "rate limit exceeded after 3 retries")
       /\ Succeeds(last.answers[n]) =>
            /\ last.err = Nil
            /\ last.msg = TrimSpace(last.answers[n].response)

\* three retries were spent and the fourth request was rate-limited too
C15_Witness ==
  /\ Generated
  /\ last.answers = <<Rate429, Rate429, Rate429, Rate429>>
  /\ last.sleeps = <<2, 4, 8>>
  /\ last.err # Nil

\* a success after two rate-limited requests
C15_WitnessSuccess ==
  /\ Generated
  /\ last.answers = <<Rate429, Rate429, OkResponse>>
  /\ last.sleeps = <<2, 4>>
  /\ last.msg = "feat: add greeting"

Fatal(a) == a # Rate429 /\ ~Succeeds(a)

\* C16: an answer other than 429 that is no success (another status, a
\* transport error or timeout, an undecodable body, an empty response field)
\* ends the call with an error at once: it is the last answer received, and no
\* wait follows it.
C16_OnlyRateLimitRetried ==
  Generated =>
    \A i \in 1..Len(last.answers) :
      Fatal(last.answers[i]) =>
        /\ i = Len(last.answers)
        /\ last.requests = i
        /\ Len(last.sleeps) = i - 1
        /\ \A k \in 1..(i - 1) : last.answers[k] = Rate429
        /\ last.err # Nil
        /\ last.msg = ""

\* a 500 on the second request, after one rate-limited request
C16_Witness ==
  /\ Generated
  /\ last.answers = <<Rate429, Status500>>
  /\ last.sleeps = <<2>>
  /\ last.err = "API returned error: 500 Internal Server Error (body: boom)"

C16_WitnessTimeout ==
  Generated /\ last.answers = <<TimedOut>> /\ last.sleeps = <<>> /\ last.err # Nil

C16_WitnessUndecodable ==
  Generated /\ last.answers = <<Undecodable>> /\ last.err # Nil

C16_WitnessEmpty ==
  Generated /\ last.answers = <<EmptyResponse>>
            /\ last.err = "empty response from model"


(***************************************************************************)
(* C17 - C20: App.Run and its collaborators                                *)
(***************************************************************************)
RunCalls == <<"IsInsideRepo", "HasStagedChanges", "LoadRules", "GetStagedDiff",
              "GenerateCommitMessage">>

Ran == last.op = "Run"

\* the k-th collaborator was called and returned r
Returned(k, r) == Len(last.rets) >= k /\ last.rets[k] = r

GeneratorCalled == \E k \in 1..Len(last.calls) : last.calls[k] = "GenerateCommitMessage"

\* C17: when LoadRules returns an error, Run prints a warning, goes on to
\* GetStagedDiff and, the diff obtained, to the generator, to which it passes the
\* empty string as the rules; the error Run returns, if any, is that of a later
\* step.
C17_RulesFailureNotFatal ==
  (Ran /\ Returned(3, "error")) =>
    /\ IsPrefix("Warning: failed to load rules: ", last.warn)
    /\ Len(last.calls) >= 4 /\ last.calls[4] = "GetStagedDiff"
    /\ Returned(4, "ok") =>
         /\ Len(last.calls) = 5 /\ last.calls[5] = "GenerateCommitMessage"
         /\ last.argRules = ""
         /\ Returned(5, "ok") <=> last.err = Nil
    /\ last.err # Nil =>
         \/ IsPrefix("failed to get diff: ", last.err)
         \/ IsPrefix("failed to generate commit message: ", last.err)

\* a rules file that exists but cannot be read, and a run that succeeds
C17_Witness ==
  /\ Ran /\ Returned(3, "error") /\ Returned(5, "ok")
  /\ rulesFile.ok /\ rulesFile.data # ""
  /\ last.warn # "" /\ last.argRules = "" /\ last.err = Nil

\* C18: Run calls its collaborators in the order IsInsideRepo, HasStagedChanges,
\* LoadRules, GetStagedDiff, generator, and the generator only after the first
\* two returned true and GetStagedDiff succeeded; when IsInsideRepo returns false
\* (there is no repository) nothing else is called and Run fails with 'not a git
\* repository'; when GetStagedDiff fails the generator is not called and Run
\* fails with 'failed to get diff: ' followed by the cause.
C18_Gating ==
  Ran =>
    /\ Len(last.calls) >= 1 /\ Len(last.calls) = Len(last.rets)
    /\ last.calls = SubSeq(RunCalls, 1, Len(last.calls))
    /\ GeneratorCalled =>
         Returned(1, "true") /\ Returned(2, "true") /\ Returned(4, "ok")
    /\ Returned(1, "false") =>
         last.calls = <<"IsInsideRepo">> /\ last.err = "not a git repository"
    /\ ~gitDir => (~Returned(1, "true") /\ last.calls = <<"IsInsideRepo">>)
    /\ (gitDir /\ last.opens = 0) => Returned(1, "true")
    /\ Returned(4, "error") =>
         /\ ~GeneratorCalled
         /\ IsPrefix("failed to get diff: ", last.err)
         /\ Len(last.err) > Len("failed to get diff: ")

\* outside a repository
C18_Witness ==
  Ran /\ ~gitDir /\ Returned(1, "false") /\ last.err = "not a git repository"

\* a diff that fails after both checks passed
C18_WitnessDiffError ==
  Ran /\ Returned(2, "true") /\ Returned(4, "error") /\ last.err # Nil

\* the generator reached
C18_WitnessGenerator == Ran /\ GeneratorCalled /\ last.err = Nil

\* C19: when Run calls the generator, the diff it passes is the string
\* GetStagedDiff returned in that run and the rules it passes are the string
\* LoadRules returned in that run, and the generator is called once.
C19_GeneratorArguments ==
  (Ran /\ GeneratorCalled) =>
    /\ last.argDiff = last.diff
    /\ last.argRules = last.rules
    /\ Cardinality({k \in 1..Len(last.calls) : last.calls[k] = "GenerateCommitMessage"}) = 1

\* rules and a diff, both non-empty and different, handed over
C19_Witness ==
  /\ Ran /\ GeneratorCalled
  /\ last.rules = RulesText /\ last.argRules = RulesText
  /\ last.diff # "" /\ last.argDiff = last.diff

\* C20: a Run or a CommitWithMessage that ends with an error has added no
\* commit object and has left HEAD as it was, and Run never calls
\* CommitWithMessage.
C20_AsStated ==
  [][/\ (last'.op \in {"Run", "CommitWithMessage"} /\ last'.err # Nil) =>
          (commits' = commits /\ headRef' = headRef)
     /\ last'.op = "Run" =>
          \A k \in 1..Len(last'.calls) : last'.calls[k] # "CommitWithMessage"]_vars

(***************************************************************************)
(* C25: HasStagedChanges against GetStagedDiff                             *)
(***************************************************************************)
\* C25: on a status for which HasStagedChanges returns true, GetStagedDiff
\* returns a non-empty diff, and the diff Run passes to the generator is never
\* empty.
C25_AsStated ==
  /\ (DiffReturned /\ hasStagedChanges("none").val) => last.diff # ""
  /\ (Ran /\ GeneratorCalled) => last.argDiff # ""

(***************************************************************************)
(* C26: body lines of a side without content                               *)
(***************************************************************************)
\* the old content of p was not to be had: no blob of p was read
OldAbsent(p) == \A r \in last.reads : ~(r.kind = "blob" /\ r.path = p)

\* no line of body starts with pfx
NoLine(pfx, body) == \A i \in 1..Len(body) : SubSeq(body[i], 1, 1) # pfx

\* C26: a side whose content is absent or unreadable contributes no body line:
\* no '+' line for an Added path whose working copy is unreadable, no '-' line
\* for a Deleted path without HEAD blob, and for a Modified path no '-' line
\* when the old content is absent and no '+' line when the working copy is
\* unreadable.
C26_AsStated ==
  DiffReturned =>
    \A p \in DOMAIN status :
      /\ (status[p].Staging = Added /\ ~work[p].ok) =>
           NoLine("+", BodyOf(p, "+++ b/" \o p))
      /\ (status[p].Staging = Deleted /\ OldAbsent(p)) =>
           NoLine("-", BodyOf(p, "+++ /dev/null"))
      /\ (status[p].Staging = Modified /\ OldAbsent(p)) =>
           NoLine("-", BodyOf(p, "+++ b/" \o p))
      /\ (status[p].Staging = Modified /\ ~work[p].ok) =>
           NoLine("+", BodyOf(p, "+++ b/" \o p))

\* what holds of the Added and Deleted cases alone
C26_AddedDeletedOnly ==
  DiffReturned =>
    \A p \in DOMAIN status :
      /\ (status[p].Staging = Added /\ ~work[p].ok) =>
           BodyOf(p, "+++ b/" \o p) = <<>>
      /\ (status[p].Staging = Deleted /\ OldAbsent(p)) =>
           BodyOf(p, "+++ /dev/null") = <<>>
      /\ (status[p].Staging = Modified /\ OldAbsent(p) /\ ~work[p].ok) =>
           BodyOf(p, "+++ b/" \o p) = <<"-", "+">>

(***************************************************************************)
(* C27: the message returned by GenerateCommitMessage                      *)
(***************************************************************************)
\* C27: GenerateCommitMessage never returns the empty message with a nil error;
\* a response of whitespace only counts as empty.
C27_AsStated == (Generated /\ last.err = Nil) => last.msg # ""

\* what holds: without error, the response field itself was not empty
C27_ResponseFieldNotEmpty ==
  (Generated /\ last.err = Nil) =>
    /\ last.answers[Len(last.answers)].response # ""
    /\ last.msg = TrimSpace(last.answers[Len(last.answers)].response)

(***************************************************************************)
(* C24, C28: the cache of the rules loader                                 *)
(***************************************************************************)
\* C24: a LoadRules that follows a LoadRules which found no rules file in the
\* repository root returns the empty result without reading the file again.
C24_AsStated ==
  (last.op = "LoadRules" /\ last.again) =>
    (last.reads = {} /\ last.rules = "" /\ last.err = Nil)

\* what holds: only a non-empty text is answered from the cache
C24_OnlyTextCached ==
  last.op = "LoadRules" =>
    /\ last.reads = {} => (~gitDir \/ (last.rules # "" /\ last.rules = cachedRules))
    /\ last.again => last.reads = {RulesRead}

\* C28: inside a repository every LoadRules returns the content the rules file
\* has at the time of the call, the empty string when there is no file.
C28_AsStated ==
  (last.op = "LoadRules" /\ gitDir /\ last.err = Nil) =>
    last.rules = (IF rulesFile.ok THEN rulesFile.data ELSE "")

\* what holds: the text returned is that of the file whenever the file was read
C28_FreshWhenRead ==
  (last.op = "LoadRules" /\ gitDir /\ last.err = Nil /\ last.reads # {}) =>
    last.rules = (IF rulesFile.ok THEN rulesFile.data ELSE "")

(***************************************************************************)
(* C30: IsInsideRepo after the repository was removed                      *)
(***************************************************************************)
\* C30: IsInsideRepo returns true only if a repository marker exists at the time
\* of the call, also when a handle was cached before the repository was removed.
C30_AsStated == (last.op = "IsInsideRepo" /\ last.val) => gitDir

\* what holds: true without a repository comes from the cached handle only
C30_TrueFromCacheOnly ==
  (last.op = "IsInsideRepo" /\ last.val /\ ~gitDir) =>
    (last.opens = 0 /\ repo # Nil /\ repoPath = cwd)

(***************************************************************************)
(* C23: concurrent callers of openRepo                                     *)
(***************************************************************************)
\* between Lock and Unlock
InOpenRepo(t) == threads.pc[t] \in {"getwd", "open", "store", "unlock"}

CallerDone(t) == threads.pc[t] = "done"

\* C23: with several goroutines calling openRepo on one client in one working
\* directory, at most one of them is between Lock and Unlock; the repository is
\* opened with success at most once, and once a caller has returned a handle
\* exactly once; every caller that returns without error returns the one handle,
\* paired with the working directory.
C23_OpenedOnce ==
  /\ \A t, u \in Callers : (InOpenRepo(t) /\ InOpenRepo(u)) => t = u
  /\ \A t \in Callers : InOpenRepo(t) => threads.mu = t
  /\ threads.opened <= 1
  /\ \A t \in Callers :
       (CallerDone(t) /\ threads.ret[t].err = Nil) =>
          /\ threads.opened = 1
          /\ threads.ret[t].repo = repo
          /\ threads.ret[t].repo = RepoHandle(cwd)
          /\ threads.ret[t].path = cwd
  /\ repo # Nil => (repoPath = cwd /\ repo = RepoHandle(repoPath))

\* all callers returned the handle and one of them opened it
C23_Witness ==
  /\ \A t \in Callers : CallerDone(t) /\ threads.ret[t].repo = RepoHandle(WorkDir)
  /\ threads.opened = 1

\* a caller whose open failed, and a later caller who opened
C23_WitnessAfterFailure ==
  /\ \E t \in Callers : CallerDone(t) /\ threads.ret[t].err = ErrOpen
  /\ \E t \in Callers : CallerDone(t) /\ threads.ret[t].repo = RepoHandle(WorkDir)
  /\ threads.opened = 1

(***************************************************************************)
(* C21: LoadConfig, SaveDefaultConfig, ConfigExists                        *)
(***************************************************************************)
\* the object of the config file LoadConfig reads, without keys when it reads none
FileObject == IF gitDir /\ configFile.ok THEN configFile.obj ELSE [none |-> ""]

\* C21: LoadConfig takes each setting from the config file when the file gives
\* it and else the default (model 'gpt-oss:120b', base URL
\* 'http://localhost:11434/api/generate', timeout 60); the API key comes from
\* OLLAMA_API_KEY only when the file gives none; right after SaveDefaultConfig
\* in a repository ConfigExists returns true and LoadConfig returns what was
\* saved.
C21_Priority ==
  /\ last.op = "LoadConfig" =>
       /\ last.err # Nil <=> (gitDir /\ configFile.ok /\ ~configFile.json)
       /\ last.err = Nil =>
            /\ last.cfg.Model = IF "model" \in DOMAIN FileObject
                                THEN FileObject.model ELSE "gpt-oss:120b"
            /\ last.cfg.BaseURL = IF "base_url" \in DOMAIN FileObject
                                  THEN FileObject.base_url
                                  ELSE "http://localhost:11434/api/generate"
            /\ last.cfg.TimeoutSeconds = IF "timeout_seconds" \in DOMAIN FileObject
                                         THEN FileObject.timeout_seconds ELSE 60
            /\ last.cfg.APIKey = IF "api_key" \in DOMAIN FileObject /\ FileObject.api_key # ""
                                 THEN FileObject.api_key ELSE envKey
       /\ (last.again /\ gitDir) =>
            /\ last.err = Nil
            /\ configFile.ok /\ configFile.json
            /\ configFile.obj.api_key = last.cfg.APIKey
            /\ configFile.obj.model = last.cfg.Model
            /\ configFile.obj.base_url = last.cfg.BaseURL
            /\ configFile.obj.timeout_seconds = last.cfg.TimeoutSeconds
  /\ (last.op = "ConfigExists" /\ last.again /\ gitDir /\ last.err = Nil) => last.val

\* the file gives a key and a timeout, the environment another key
C21_Witness ==
  /\ last.op = "LoadConfig" /\ gitDir
  /\ envKey = "env-key"
  /\ last.cfg = [APIKey |-> "file-key", Model |-> "gpt-oss:120b",
                 BaseURL |-> "http://localhost:11434/api/generate", TimeoutSeconds |-> 30]

\* the key of the environment, the file giving an empty one
C21_WitnessEnv ==
  /\ last.op = "LoadConfig" /\ gitDir /\ configFile.ok /\ configFile.json
  /\ "api_key" \in DOMAIN configFile.obj
  /\ last.cfg.APIKey = "env-key" /\ last.cfg.Model = ""

\* loaded right after it was saved
C21_WitnessSaved ==
  /\ last.op = "LoadConfig" /\ last.again /\ gitDir
  /\ last.cfg.APIKey = "env-key" /\ last.cfg.TimeoutSeconds = 60

(***************************************************************************)
(* C22, C29: App.Init                                                      *)
(***************************************************************************)
\* the last operation was an Init that found no config file and returned nil
Initialized == last.op = "Init" /\ last.err = Nil /\ ~last.val

\* C22: after an Init that found no config file and succeeded, the config file,
\* the rules file and the pre-commit hook exist; they were written in the order
\* config, rules, hook; a rules file that existed before was not written and
\* holds what it held.
C22_InitArtifacts ==
  Initialized =>
    /\ configFile.ok /\ rulesFile.ok /\ hookFile.ok
    /\ configFile.json
    /\ hookFile.data = HookScript
    /\ last.again =>
         (last.writes = <<"config", "hook">> /\ rulesFile.data = last.rules)
    /\ ~last.again =>
         (last.writes = <<"config", "rules", "hook">> /\ rulesFile.data = DefaultRules)

\* all three files written
C22_Witness ==
  /\ Initialized
  /\ last.writes = <<"config", "rules", "hook">>
  /\ configFile.ok /\ rulesFile.ok /\ hookFile.ok

\* a rules file that was there before
C22_WitnessRulesKept ==
  /\ Initialized
  /\ last.again
  /\ rulesFile.data = "Keep it short\n"
  /\ hookFile.ok

\* C29: when only Init writes the config file and the hook, a config file is
\* never there without the hook, and no Init reports the repository as already
\* initialized while the hook is missing.
C29_AsStated ==
  /\ configFile.ok => hookFile.ok
  /\ (last.op = "Init" /\ last.val) => hookFile.ok

\* what holds: the hook is never there without the config file, and an Init
\* that finds the config file writes nothing
C29_HookImpliesConfig ==
  /\ hookFile.ok => configFile.ok
  /\ (last.op = "Init" /\ last.val) => (configFile.ok /\ last.writes = <<>>)

====
